---- MODULE Spec2Model ----
(***************************************************************************)
(* Model of samcli/commands/local/lib/provider.py: the LayerVersion        *)
(* identity algorithm (name, version, layer_arn, equality), the Cors to    *)
(* header conversion and the Api aggregate.                                *)
(*                                                                         *)
(* Python values are records [t, s, n]: t is the Python type, s the        *)
(* characters of a str (a sequence of one-character strings), n the value  *)
(* of an int.                                                              *)
(***************************************************************************)
EXTENDS Integers, Sequences, FiniteSets, TLC

\* ------------------------------------------------------------------------
\* Bounds of the model
\* ------------------------------------------------------------------------
\* Largest number of colon-delimited segments of an ARN drawn as input.
MaxSegments == 4
\* Largest number of LayerVersion objects alive at once.
MaxLayers == 2
\* Largest number of Api objects alive at once.
MaxApis == 2

\* ------------------------------------------------------------------------
\* Python values
\* ------------------------------------------------------------------------
PyStr(s) == [t |-> "str", s |-> s, n |-> 0]
PyInt(n) == [t |-> "int", s |-> <<>>, n |-> n]
PyNone == [t |-> "NoneType", s |-> <<>>, n |-> 0]
\* A non-empty dict, such as the unresolved intrinsic {"Ref": "MyLayer"}.
PyDict == [t |-> "dict", s |-> <<>>, n |-> 1]

\* isinstance(v, six.string_types)
IsString(v) == v.t = "str"

\* bool(v): a str or a dict is true when it is not empty, an int when it is
\* not 0, None never, and a Cors (a 4-tuple) always.
Truthy(v) ==
    CASE v.t = "str" -> Len(v.s) > 0
      [] v.t = "int" -> v.n # 0
      [] v.t = "dict" -> v.n > 0
      [] v.t = "NoneType" -> FALSE
      [] OTHER -> TRUE

\* ------------------------------------------------------------------------
\* str.rsplit(':', maxsplit) and int(str)
\* ------------------------------------------------------------------------
\* Index of the last ':' of s, 0 when there is none.
RECURSIVE LastColon(_)
LastColon(s) ==
    IF Len(s) = 0 THEN 0
    ELSE IF s[Len(s)] = ":" THEN Len(s)
    ELSE LastColon(SubSeq(s, 1, Len(s) - 1))

\* s.rsplit(':', maxsplit): the list of pieces, split at the last maxsplit colons.
RECURSIVE RSplit(_, _)
RSplit(s, maxsplit) ==
    LET i == LastColon(s) IN
    IF maxsplit = 0 \/ i = 0 THEN << s >>
    ELSE Append(RSplit(SubSeq(s, 1, i - 1), maxsplit - 1), SubSeq(s, i + 1, Len(s)))

DigitValue ==
    [c \in {"0", "1", "2", "3", "4", "5", "6", "7", "8", "9"} |->
        CASE c = "0" -> 0 [] c = "1" -> 1 [] c = "2" -> 2 [] c = "3" -> 3
          [] c = "4" -> 4 [] c = "5" -> 5 [] c = "6" -> 6 [] c = "7" -> 7
          [] c = "8" -> 8 [] c = "9" -> 9]

IsDigits(s) == Len(s) > 0 /\ \A i \in 1..Len(s) : s[i] \in DOMAIN DigitValue

RECURSIVE DecimalValue(_)
DecimalValue(s) ==
    IF Len(s) = 0 THEN 0
    ELSE 10 * DecimalValue(SubSeq(s, 1, Len(s) - 1)) + DigitValue[s[Len(s)]]

\* int(s) for a str s: an optional sign followed by decimal digits; anything
\* else is a ValueError.
IntParses(s) ==
    \/ IsDigits(s)
    \/ Len(s) > 1 /\ s[1] \in {"+", "-"} /\ IsDigits(Tail(s))

IntValue(s) ==
    IF s[1] = "-" THEN 0 - DecimalValue(Tail(s))
    ELSE IF s[1] = "+" THEN DecimalValue(Tail(s))
    ELSE DecimalValue(s)

\* ------------------------------------------------------------------------
\* hashlib.sha256(arn.encode('utf-8')).hexdigest()
\* 32-bit words are pairs <<high 16 bits, low 16 bits>>.
\* ------------------------------------------------------------------------
\* arn.encode('utf-8'): the byte of each (ASCII) character of the alphabet.
Ord ==
    [c \in {":", "-", "+", "0", "1", "2", "3", "4", "5", "6", "7", "8", "9",
            "a", "b", "x"} |->
        CASE c = ":" -> 58 [] c = "-" -> 45 [] c = "+" -> 43
          [] c = "a" -> 97 [] c = "b" -> 98 [] c = "x" -> 120
          [] OTHER -> 48 + DigitValue[c]]

Utf8(s) == [i \in 1..Len(s) |-> Ord[s[i]]]

\* Bitwise and / xor of two 4-bit numbers x, y: entry [x + 1][y + 1].
And4 ==
    << << 0,  0,  0,  0,  0,  0,  0,  0,  0,  0,  0,  0,  0,  0,  0,  0>>,
       << 0,  1,  0,  1,  0,  1,  0,  1,  0,  1,  0,  1,  0,  1,  0,  1>>,
       << 0,  0,  2,  2,  0,  0,  2,  2,  0,  0,  2,  2,  0,  0,  2,  2>>,
       << 0,  1,  2,  3,  0,  1,  2,  3,  0,  1,  2,  3,  0,  1,  2,  3>>,
       << 0,  0,  0,  0,  4,  4,  4,  4,  0,  0,  0,  0,  4,  4,  4,  4>>,
       << 0,  1,  0,  1,  4,  5,  4,  5,  0,  1,  0,  1,  4,  5,  4,  5>>,
       << 0,  0,  2,  2,  4,  4,  6,  6,  0,  0,  2,  2,  4,  4,  6,  6>>,
       << 0,  1,  2,  3,  4,  5,  6,  7,  0,  1,  2,  3,  4,  5,  6,  7>>,
       << 0,  0,  0,  0,  0,  0,  0,  0,  8,  8,  8,  8,  8,  8,  8,  8>>,
       << 0,  1,  0,  1,  0,  1,  0,  1,  8,  9,  8,  9,  8,  9,  8,  9>>,
       << 0,  0,  2,  2,  0,  0,  2,  2,  8,  8, 10, 10,  8,  8, 10, 10>>,
       << 0,  1,  2,  3,  0,  1,  2,  3,  8,  9, 10, 11,  8,  9, 10, 11>>,
       << 0,  0,  0,  0,  4,  4,  4,  4,  8,  8,  8,  8, 12, 12, 12, 12>>,
       << 0,  1,  0,  1,  4,  5,  4,  5,  8,  9,  8,  9, 12, 13, 12, 13>>,
       << 0,  0,  2,  2,  4,  4,  6,  6,  8,  8, 10, 10, 12, 12, 14, 14>>,
       << 0,  1,  2,  3,  4,  5,  6,  7,  8,  9, 10, 11, 12, 13, 14, 15>> >>

Xor4 ==
    << << 0,  1,  2,  3,  4,  5,  6,  7,  8,  9, 10, 11, 12, 13, 14, 15>>,
       << 1,  0,  3,  2,  5,  4,  7,  6,  9,  8, 11, 10, 13, 12, 15, 14>>,
       << 2,  3,  0,  1,  6,  7,  4,  5, 10, 11,  8,  9, 14, 15, 12, 13>>,
       << 3,  2,  1,  0,  7,  6,  5,  4, 11, 10,  9,  8, 15, 14, 13, 12>>,
       << 4,  5,  6,  7,  0,  1,  2,  3, 12, 13, 14, 15,  8,  9, 10, 11>>,
       << 5,  4,  7,  6,  1,  0,  3,  2, 13, 12, 15, 14,  9,  8, 11, 10>>,
       << 6,  7,  4,  5,  2,  3,  0,  1, 14, 15, 12, 13, 10, 11,  8,  9>>,
       << 7,  6,  5,  4,  3,  2,  1,  0, 15, 14, 13, 12, 11, 10,  9,  8>>,
       << 8,  9, 10, 11, 12, 13, 14, 15,  0,  1,  2,  3,  4,  5,  6,  7>>,
       << 9,  8, 11, 10, 13, 12, 15, 14,  1,  0,  3,  2,  5,  4,  7,  6>>,
       <<10, 11,  8,  9, 14, 15, 12, 13,  2,  3,  0,  1,  6,  7,  4,  5>>,
       <<11, 10,  9,  8, 15, 14, 13, 12,  3,  2,  1,  0,  7,  6,  5,  4>>,
       <<12, 13, 14, 15,  8,  9, 10, 11,  4,  5,  6,  7,  0,  1,  2,  3>>,
       <<13, 12, 15, 14,  9,  8, 11, 10,  5,  4,  7,  6,  1,  0,  3,  2>>,
       <<14, 15, 12, 13, 10, 11,  8,  9,  6,  7,  4,  5,  2,  3,  0,  1>>,
       <<15, 14, 13, 12, 11, 10,  9,  8,  7,  6,  5,  4,  3,  2,  1,  0>> >>

\* Bitwise and / xor of two 16-bit numbers, four bits at a time.
And16(x, y) ==
    4096 * And4[(x \div 4096) + 1][(y \div 4096) + 1]
    + 256 * And4[((x \div 256) % 16) + 1][((y \div 256) % 16) + 1]
    + 16 * And4[((x \div 16) % 16) + 1][((y \div 16) % 16) + 1]
    + And4[(x % 16) + 1][(y % 16) + 1]

Xor16(x, y) ==
    4096 * Xor4[(x \div 4096) + 1][(y \div 4096) + 1]
    + 256 * Xor4[((x \div 256) % 16) + 1][((y \div 256) % 16) + 1]
    + 16 * Xor4[((x \div 16) % 16) + 1][((y \div 16) % 16) + 1]
    + Xor4[(x % 16) + 1][(y % 16) + 1]

WAnd(a, b) == << And16(a[1], b[1]), And16(a[2], b[2]) >>
WXor(a, b) == << Xor16(a[1], b[1]), Xor16(a[2], b[2]) >>
WNot(a) == << 65535 - a[1], 65535 - a[2] >>
WAdd(a, b) ==
    LET lo == a[2] + b[2]
        hi == a[1] + b[1] + (lo \div 65536)
    IN << hi % 65536, lo % 65536 >>

\* Rotate / shift right by n bits, 0 <= n < 32.
RotR(a, n) ==
    LET w == IF n >= 16 THEN << a[2], a[1] >> ELSE a
        k == n % 16
        p == 2 ^ k
        q == 2 ^ (16 - k)
    IN << (w[1] \div p) + (w[2] % p) * q, (w[2] \div p) + (w[1] % p) * q >>

ShR(a, n) ==
    IF n >= 16 THEN << 0, a[1] \div (2 ^ (n - 16)) >>
    ELSE LET p == 2 ^ n
             q == 2 ^ (16 - n)
         IN << a[1] \div p, (a[2] \div p) + (a[1] % p) * q >>

SHA256_K ==
    << <<17034, 12184>>, <<28983, 17553>>, <<46528, 64463>>, <<59829, 56229>>,
       <<14678, 49755>>, <<23025, 4593>>, <<37439, 33444>>, <<43804, 24277>>,
       <<55303, 43672>>, <<4739, 23297>>, <<9265, 34238>>, <<21772, 32195>>,
       <<29374, 23924>>, <<32990, 45566>>, <<39900, 1703>>, <<49563, 61812>>,
       <<58523, 27073>>, <<61374, 18310>>, <<4033, 40390>>, <<9228, 41420>>,
       <<11753, 11375>>, <<19060, 33962>>, <<23728, 43484>>, <<30457, 35034>>,
       <<38974, 20818>>, <<43057, 50797>>, <<45059, 10184>>, <<48985, 32711>>,
       <<50912, 3059>>, <<54695, 37191>>, <<1738, 25425>>, <<5161, 10599>>,
       <<10167, 2693>>, <<11803, 8504>>, <<19756, 28156>>, <<21304, 3347>>,
       <<25866, 29524>>, <<30314, 2747>>, <<33218, 51502>>, <<37490, 11397>>,
       <<41663, 59553>>, <<43034, 26187>>, <<49739, 35696>>, <<51052, 20899>>,
       <<53650, 59417>>, <<54937, 1572>>, <<62478, 13701>>, <<4202, 41072>>,
       <<6564, 49430>>, <<7735, 27656>>, <<10056, 30540>>, <<13488, 48309>>,
       <<14620, 3251>>, <<20184, 43594>>, <<23452, 51791>>, <<26670, 28659>>,
       <<29839, 33518>>, <<30885, 25455>>, <<33992, 30740>>, <<36039, 520>>,
       <<37054, 65530>>, <<42064, 27883>>, <<48889, 41975>>, <<50801, 30962>> >>

SHA256_H0 ==
    << <<27145, 58983>>, <<47975, 44677>>, <<15470, 62322>>, <<42319, 62778>>,
       <<20750, 21119>>, <<39685, 26764>>, <<8067, 55723>>, <<23520, 52505>> >>

Ch(x, y, z) == WXor(WAnd(x, y), WAnd(WNot(x), z))
Maj(x, y, z) == WXor(WXor(WAnd(x, y), WAnd(x, z)), WAnd(y, z))
BigSigma0(x) == WXor(WXor(RotR(x, 2), RotR(x, 13)), RotR(x, 22))
BigSigma1(x) == WXor(WXor(RotR(x, 6), RotR(x, 11)), RotR(x, 25))
SmallSigma0(x) == WXor(WXor(RotR(x, 7), RotR(x, 18)), ShR(x, 3))
SmallSigma1(x) == WXor(WXor(RotR(x, 17), RotR(x, 19)), ShR(x, 10))

\* The message padded to a multiple of 64 bytes: 0x80, zeros, the bit length
\* as a 64-bit big-endian number (messages here are shorter than 2^13 bytes).
Sha256Pad(bytes) ==
    LET len == Len(bytes)
        zeros == (119 - len) % 64
        bitlen == 8 * len
    IN bytes \o << 128 >> \o [i \in 1..zeros |-> 0]
             \o << 0, 0, 0, 0, 0, 0, bitlen \div 256, bitlen % 256 >>

\* The 16 big-endian words of block b (0-based) of the padded message.
BlockWords(padded, b) ==
    [t \in 1..16 |->
        LET o == 64 * b + 4 * (t - 1)
        IN << 256 * padded[o + 1] + padded[o + 2],
              256 * padded[o + 3] + padded[o + 4] >>]

\* The message schedule: words lo..hi appended to W, which holds words 1..lo-1.
\* (The range is halved rather than walked, and the left half is computed
\* before the right half starts (Len(left) = mid always holds), so that
\* evaluation nests to depth log2(48), not 48.)
RECURSIVE Schedule(_, _, _)
Schedule(W, lo, hi) ==
    IF lo = hi
    THEN Append(W, WAdd(WAdd(SmallSigma1(W[lo - 2]), W[lo - 7]),
                        WAdd(SmallSigma0(W[lo - 15]), W[lo - 16])))
    ELSE LET mid == (lo + hi) \div 2
             left == Schedule(W, lo, mid)
         IN IF Len(left) = mid THEN Schedule(left, mid + 1, hi) ELSE left

\* One round of the compression function on working variables v = a..h.
Round(v, Kt, Wt) ==
    LET T1 == WAdd(WAdd(WAdd(v[8], BigSigma1(v[5])),
                        WAdd(Ch(v[5], v[6], v[7]), Kt)), Wt)
        T2 == WAdd(BigSigma0(v[1]), Maj(v[1], v[2], v[3]))
    IN << WAdd(T1, T2), v[1], v[2], v[3], WAdd(v[4], T1), v[5], v[6], v[7] >>

\* Rounds lo..hi of the compression function from working variables v, with
\* message schedule W (the range is halved, as in Schedule).
RECURSIVE Rounds(_, _, _, _)
Rounds(v, W, lo, hi) ==
    IF lo = hi THEN Round(v, SHA256_K[lo], W[lo])
    ELSE LET mid == (lo + hi) \div 2
             left == Rounds(v, W, lo, mid)
         IN IF Len(left) = 8 THEN Rounds(left, W, mid + 1, hi) ELSE left

RECURSIVE Sha256Blocks(_, _, _)
Sha256Blocks(H, padded, b) ==
    IF 64 * b >= Len(padded) THEN H
    ELSE LET v == Rounds(H, Schedule(BlockWords(padded, b), 17, 64), 1, 64)
         IN Sha256Blocks([i \in 1..8 |-> WAdd(H[i], v[i])], padded, b + 1)

HexDigits ==
    << "0", "1", "2", "3", "4", "5", "6", "7", "8", "9", "a", "b", "c", "d", "e", "f" >>

Hex16(x) ==
    << HexDigits[(x \div 4096) + 1], HexDigits[((x \div 256) % 16) + 1],
       HexDigits[((x \div 16) % 16) + 1], HexDigits[(x % 16) + 1] >>

\* hashlib.sha256(bytes).hexdigest(): 64 lowercase hex characters.
Sha256HexDigest(bytes) ==
    LET H == Sha256Blocks(SHA256_H0, Sha256Pad(bytes), 0)
        hex[i \in 0..8] ==
            IF i = 0 THEN <<>> ELSE hex[i - 1] \o Hex16(H[i][1]) \o Hex16(H[i][2])
    IN hex[8]


\* ------------------------------------------------------------------------
\* Inputs
\* ------------------------------------------------------------------------
Colon == << ":" >>

\* ":".join(segs)
RECURSIVE Join(_)
Join(segs) ==
    IF Len(segs) = 0 THEN <<>>
    ELSE IF Len(segs) = 1 THEN segs[1]
    ELSE segs[1] \o Colon \o Join(Tail(segs))

\* The segments ARNs are made of: empty, a name, a number, a signed number.
Segments == { <<>>, << "a" >>, << "1", "2" >>, << "-", "1" >> }

\* The arn strings drawn as input: every string of one, two or three segments
\* joined by colons, and every string of three segments behind further "a"
\* segments, up to MaxSegments segments in all.
ArnStrings ==
    UNION { { Join(segs) : segs \in [1..k -> Segments] } : k \in 1..3 }
    \cup UNION { { Join([i \in 1..k |-> << "a" >>] \o segs) :
                       segs \in [1..3 -> Segments] } : k \in 1..(MaxSegments - 3) }

\* Values given as arn that are not strings: an int, an intrinsic, None.
NonStrings == { PyInt(123), PyDict, PyNone }

\* Values given as codeuri: None, the empty string, a path, an S3 location.
Codeuris == { PyNone, PyStr(<<>>), PyStr(<< "x" >>), PyDict }

\* ------------------------------------------------------------------------
\* LayerVersion
\* ------------------------------------------------------------------------
LAYER_NAME_DELIMETER == << "-" >>

NoError == "none"
InvalidLayerVersionArn == "InvalidLayerVersionArn"
UnsupportedIntrinsic == "UnsupportedIntrinsic"
ValueError == "ValueError"
TypeError == "TypeError"

\* hashlib.sha256(arn.encode('utf-8')).hexdigest()[0:10]
Sha256Prefix(arn) == SubSeq(Sha256HexDigest(Utf8(arn)), 1, 10)

\* The strings of ArnStrings that rsplit(':', 2) splits in three: the only
\* ones a name is ever hashed for.
HashedArns == { a \in ArnStrings : Len(RSplit(a, 2)) = 3 }

\* Sha256Prefix of each of them, computed once.
Sha256PrefixOf == [a \in HashedArns |-> Sha256Prefix(a)]

\* _compute_layer_version without its early return for a layer defined within
\* the template: the logical id is parsed as an arn.
Mutant_compute_layer_version(is_defined_within_template, arn) ==
    LET parts == RSplit(arn, 1) IN
    IF Len(parts) # 2 \/ ~IntParses(parts[2])
    THEN [raised |-> InvalidLayerVersionArn, value |-> PyNone]
    ELSE [raised |-> NoError, value |-> PyInt(IntValue(parts[2]))]

\* LayerVersion._compute_layer_version: what it raises and what it returns.
_compute_layer_version(is_defined_within_template, arn) ==
    IF is_defined_within_template THEN [raised |-> NoError, value |-> PyNone]
    ELSE LET parts == RSplit(arn, 1) IN
         IF Len(parts) # 2 \/ ~IntParses(parts[2])
         THEN [raised |-> InvalidLayerVersionArn, value |-> PyNone]
         ELSE [raised |-> NoError, value |-> PyInt(IntValue(parts[2]))]

\* _compute_layer_name joining the version before the layer name.
Mutant_compute_layer_name_order(is_defined_within_template, arn) ==
    IF is_defined_within_template THEN [raised |-> NoError, value |-> PyStr(arn)]
    ELSE LET parts == RSplit(arn, 2) IN
         IF Len(parts) # 3
         THEN [raised |-> InvalidLayerVersionArn, value |-> PyNone]
         ELSE [raised |-> NoError,
               value |-> PyStr(parts[3] \o LAYER_NAME_DELIMETER \o parts[2]
                               \o LAYER_NAME_DELIMETER \o Sha256PrefixOf[arn])]

\* _compute_layer_name splitting at the last colon only
\* (layer_name, layer_version = arn.rsplit(':', 1)): one colon is enough.
Mutant_compute_layer_name_split(is_defined_within_template, arn) ==
    IF is_defined_within_template THEN [raised |-> NoError, value |-> PyStr(arn)]
    ELSE LET parts == RSplit(arn, 1) IN
         IF Len(parts) # 2
         THEN [raised |-> InvalidLayerVersionArn, value |-> PyNone]
         ELSE [raised |-> NoError,
               value |-> PyStr(parts[1] \o LAYER_NAME_DELIMETER \o parts[2])]

\* _compute_layer_name without the hash of the arn: <layer-name>-<version>.
Mutant_compute_layer_name_nohash(is_defined_within_template, arn) ==
    IF is_defined_within_template THEN [raised |-> NoError, value |-> PyStr(arn)]
    ELSE LET parts == RSplit(arn, 2) IN
         IF Len(parts) # 3
         THEN [raised |-> InvalidLayerVersionArn, value |-> PyNone]
         ELSE [raised |-> NoError,
               value |-> PyStr(parts[2] \o LAYER_NAME_DELIMETER \o parts[3])]

\* LayerVersion._compute_layer_name: what it raises and what it returns.
_compute_layer_name(is_defined_within_template, arn) ==
    IF is_defined_within_template THEN [raised |-> NoError, value |-> PyStr(arn)]
    ELSE LET parts == RSplit(arn, 2) IN
         IF Len(parts) # 3
         THEN [raised |-> InvalidLayerVersionArn, value |-> PyNone]
         ELSE [raised |-> NoError,
               value |-> PyStr(parts[2] \o LAYER_NAME_DELIMETER \o parts[3]
                               \o LAYER_NAME_DELIMETER
                               \o Sha256PrefixOf[arn])]

\* The body of LayerVersion.__init__ behind its isinstance check: the fields
\* set, or the exception _compute_layer_name or _compute_layer_version raises
\* (obj is the empty sequence when the constructor raises).
InitFields(arn, codeuri) ==
    LET is_defined_within_template == Truthy(codeuri)
        name == _compute_layer_name(is_defined_within_template, arn.s)
        version == _compute_layer_version(is_defined_within_template, arn.s)
    IN IF name.raised # NoError THEN [raised |-> name.raised, obj |-> <<>>]
       ELSE IF version.raised # NoError
       THEN [raised |-> version.raised, obj |-> <<>>]
       ELSE [raised |-> NoError,
             obj |-> << [t |-> "LayerVersion",
                         _arn |-> arn,
                         _codeuri |-> codeuri,
                         is_defined_within_template |-> is_defined_within_template,
                         _name |-> name.value,
                         _version |-> version.value] >>]

\* __init__ checking the type of arn for a published layer only.
MutantLayerVersion__init__(arn, codeuri) ==
    IF ~IsString(arn) /\ ~Truthy(codeuri)
    THEN [raised |-> UnsupportedIntrinsic, obj |-> <<>>]
    ELSE InitFields(arn, codeuri)

\* LayerVersion.__init__(arn, codeuri): the exception raised and the object built.
LayerVersion__init__(arn, codeuri) ==
    IF ~IsString(arn) THEN [raised |-> UnsupportedIntrinsic, obj |-> <<>>]
    ELSE InitFields(arn, codeuri)

\* layer_arn splitting at the last two colons: the layer name goes as well.
Mutant_layer_arn(self) ==
    LET parts == RSplit(self._arn.s, 2) IN
    IF Len(parts) < 2 THEN [raised |-> ValueError, value |-> PyNone]
    ELSE [raised |-> NoError, value |-> PyStr(parts[1])]

\* LayerVersion.layer_arn: the unpacking of rsplit(':', 1) raises ValueError
\* when the arn has no colon (possible for a layer defined in the template).
layer_arn(self) ==
    LET parts == RSplit(self._arn.s, 1) IN
    IF Len(parts) # 2 THEN [raised |-> ValueError, value |-> PyNone]
    ELSE [raised |-> NoError, value |-> PyStr(parts[1])]

\* A codeuri setter that keeps is_defined_within_template in step with codeuri.
Mutant_set_codeuri(self, codeuri) ==
    [self EXCEPT !._codeuri = codeuri,
                 !.is_defined_within_template = Truthy(codeuri)]

\* LayerVersion.codeuri = codeuri
set_codeuri(self, codeuri) == [self EXCEPT !._codeuri = codeuri]

\* self.__dict__ of a LayerVersion
LayerVersion__dict__(self) ==
    << self._arn, self._codeuri, self.is_defined_within_template, self._name,
       self._version >>

\* __eq__ by arn alone.
MutantLayerVersion__eq__(self, other) ==
    IF other.t = "LayerVersion" THEN self._arn = other._arn ELSE FALSE

\* LayerVersion.__eq__(self, other)
LayerVersion__eq__(self, other) ==
    IF other.t = "LayerVersion"
    THEN LayerVersion__dict__(self) = LayerVersion__dict__(other)
    ELSE FALSE

\* ------------------------------------------------------------------------
\* Cors
\* ------------------------------------------------------------------------
\* Cors(allow_origin, allow_methods, allow_headers, max_age), each None by default
Cors(allow_origin, allow_methods, allow_headers, max_age) ==
    [t |-> "Cors", allow_origin |-> allow_origin, allow_methods |-> allow_methods,
     allow_headers |-> allow_headers, max_age |-> max_age]

\* cors_to_headers keeping the headers whose value is true (if h_value),
\* not those whose value is not None.
Mutant_cors_to_headers(cors) ==
    IF ~Truthy(cors) THEN [h_key \in {} |-> PyNone]
    ELSE LET headers ==
                 [h_key \in { "Access-Control-Allow-Origin",
                              "Access-Control-Allow-Methods",
                              "Access-Control-Allow-Headers",
                              "Access-Control-Max-Age" } |->
                     CASE h_key = "Access-Control-Allow-Origin" -> cors.allow_origin
                       [] h_key = "Access-Control-Allow-Methods" -> cors.allow_methods
                       [] h_key = "Access-Control-Allow-Headers" -> cors.allow_headers
                       [] h_key = "Access-Control-Max-Age" -> cors.max_age]
         IN [h_key \in { k \in DOMAIN headers : Truthy(headers[k]) } |->
                headers[h_key]]

\* Cors.cors_to_headers(cors): a dict, as a function from its keys.
cors_to_headers(cors) ==
    IF ~Truthy(cors) THEN [h_key \in {} |-> PyNone]
    ELSE LET headers ==
                 [h_key \in { "Access-Control-Allow-Origin",
                              "Access-Control-Allow-Methods",
                              "Access-Control-Allow-Headers",
                              "Access-Control-Max-Age" } |->
                     CASE h_key = "Access-Control-Allow-Origin" -> cors.allow_origin
                       [] h_key = "Access-Control-Allow-Methods" -> cors.allow_methods
                       [] h_key = "Access-Control-Allow-Headers" -> cors.allow_headers
                       [] h_key = "Access-Control-Max-Age" -> cors.max_age]
         IN [h_key \in { k \in DOMAIN headers : headers[k] # PyNone } |->
                headers[h_key]]

\* Values of a Cors field: absent, the empty string, a text; max_age may be 0.
CorsFieldValues == { PyNone, PyStr(<<>>), PyStr(<< "x" >>) }
MaxAgeValues == { PyNone, PyInt(0), PyStr(<< "1", "2" >>) }

CorsInputs ==
    { PyNone } \cup
    { Cors(o, m, h, a) : o \in CorsFieldValues, m \in CorsFieldValues,
                         h \in CorsFieldValues, a \in MaxAgeValues }

\* ------------------------------------------------------------------------
\* Api
\* ------------------------------------------------------------------------
PyList(items) == [t |-> "list", items |-> items]
PyTuple(items) == [t |-> "tuple", items |-> items]
PySet(items) == [t |-> "set", items |-> items]

\* Api.__init__(routes=None)
Api__init__(routes) ==
    [t |-> "Api",
     routes |-> IF routes = PyNone THEN PyList(<<>>) ELSE routes,
     cors |-> PyNone,
     binary_media_types_set |-> PySet({}),
     stage_name |-> PyNone,
     stage_variables |-> PyNone]

\* hash(v): a list and a set are unhashable (TypeError), a tuple is hashable
\* when its items are (the items here are strings).  The numbers hash() gives
\* are the interpreter's own; value is a stand-in that depends on nothing but
\* the value hashed.
PyHash(v) ==
    CASE v.t \in {"list", "set", "dict"} -> [raised |-> TypeError, value |-> 0]
      [] v.t = "tuple" -> [raised |-> NoError, value |-> 3 + Len(v.items)]
      [] v.t = "NoneType" -> [raised |-> NoError, value |-> 2]
      [] v.t = "Cors" ->
            [raised |-> NoError,
             value |-> 5 + Cardinality({ f \in {"allow_origin", "allow_methods",
                                                "allow_headers", "max_age"} :
                                         v[f] # PyNone })]
      [] OTHER -> [raised |-> NoError, value |-> 7]

\* Api.__hash__(self): the three hashes are taken left to right and the first
\* TypeError ends the call.
Api__hash__(self) ==
    LET r == PyHash(self.routes)
        c == PyHash(self.cors)
        b == PyHash(self.binary_media_types_set)
    IN IF r.raised # NoError THEN r
       ELSE IF c.raised # NoError THEN c
       ELSE IF b.raised # NoError THEN b
       ELSE [raised |-> NoError, value |-> r.value * c.value * b.value]

\* a == b for two Api objects at heap indices i and j: Api defines no __eq__,
\* so this is object identity.
Api__eq__(i, j) == i = j

\* Api.binary_media_types: list(self.binary_media_types_set)
binary_media_types(self) == self.binary_media_types_set.items

Routes == { "r1", "r2" }
RoutesInputs ==
    { PyNone, PyList(<<>>), PyList(<< "r1" >>), PyTuple(<<>>), PyTuple(<< "r1" >>) }
MediaTypes == { "image/png" }
StageValues == { PyNone, PyStr(<< "x" >>) }

\* ------------------------------------------------------------------------
\* State
\* ------------------------------------------------------------------------
VARIABLES
    layers,   \* the LayerVersion objects built so far, in order of construction
    ctor,     \* ctor[i]: the (arn, codeuri) layers[i] was constructed with,
              \* and layers[i] as __init__ left it
    apis,     \* the Api objects built so far
    raised,   \* the exception the last call raised, NoError when it returned
    ret,      \* the last call and the value it returned
    args,     \* the arguments of the call a single-call run makes
    pc        \* where a single-call run is: "start", "constructed", "returned"

vars == << layers, ctor, apis, raised, ret, args, pc >>

NoRet == [op |-> "none", value |-> PyNone]
NoArgs == [arn |-> PyNone, codeuri |-> PyNone]

\* The arns and codeuris LayerVersions on the heap are built from: a logical
\* id, an arn with one colon, two arns that end alike, an arn whose version is
\* no number, and an intrinsic.
HeapArns ==
    { PyStr(Join(<< << "a" >> >>)),
      PyStr(Join(<< << "a" >>, << "1", "2" >> >>)),
      PyStr(Join(<< << "a" >>, << "a" >>, << "1", "2" >> >>)),
      PyStr(Join(<< << "1", "2" >>, << "a" >>, << "1", "2" >> >>)),
      PyStr(Join(<< << "a" >>, << "a" >>, << "a" >> >>)),
      PyDict }
HeapCodeuris == { PyNone, PyStr(<<>>), PyStr(<< "x" >>) }

\* Values of other types a LayerVersion is compared with.
OtherValues == { PyNone, PyDict, Api__init__(PyNone) }

\* The values layers[i] is compared with beyond the LayerVersions: the above,
\* its own arn and its own name.
OthersFor(self) == OtherValues \cup { self._arn, self._name }

\* ------------------------------------------------------------------------
\* LayerVersion objects on a heap: Spec
\* ------------------------------------------------------------------------
Init ==
    /\ layers = <<>>
    /\ ctor = <<>>
    /\ apis = <<>>
    /\ raised = NoError
    /\ ret = NoRet
    /\ args = NoArgs
    /\ pc = "run"

\* LayerVersion(arn, codeuri): the object joins the heap unless __init__ raises.
Build(arn, codeuri) ==
    LET r == LayerVersion__init__(arn, codeuri) IN
    /\ layers' = layers \o r.obj
    /\ ctor' = IF r.raised = NoError
               THEN Append(ctor, [arn |-> arn, codeuri |-> codeuri,
                                  built |-> r.obj[1]])
               ELSE ctor
    /\ raised' = r.raised
    /\ ret' = [op |-> "LayerVersion", value |-> PyNone]

New ==
    /\ Len(layers) < MaxLayers
    /\ \E arn \in HeapArns, codeuri \in HeapCodeuris : Build(arn, codeuri)
    /\ UNCHANGED << apis, args, pc >>

\* layers[i].codeuri = codeuri
SetCodeuri ==
    \E i \in DOMAIN layers, codeuri \in HeapCodeuris :
        /\ layers' = [layers EXCEPT ![i] = set_codeuri(layers[i], codeuri)]
        /\ raised' = NoError
        /\ ret' = [op |-> "codeuri.setter", value |-> PyNone]
        /\ UNCHANGED << ctor, apis, args, pc >>

\* layers[i] == other
Eq ==
    \E i \in DOMAIN layers :
      \E other \in { layers[j] : j \in DOMAIN layers } \cup OthersFor(layers[i]) :
        /\ ret' = [op |-> "__eq__", value |-> LayerVersion__eq__(layers[i], other)]
        /\ raised' = NoError
        /\ UNCHANGED << layers, ctor, apis, args, pc >>

\* layers[i].layer_arn
LayerArn ==
    \E i \in DOMAIN layers :
        LET r == layer_arn(layers[i]) IN
        /\ ret' = [op |-> "layer_arn", value |-> r.value]
        /\ raised' = r.raised
        /\ UNCHANGED << layers, ctor, apis, args, pc >>

Next == New \/ SetCodeuri \/ Eq \/ LayerArn

Spec == Init /\ [][Next]_vars

\* ------------------------------------------------------------------------
\* One LayerVersion(arn, codeuri) call on every input: SpecArn
\* ------------------------------------------------------------------------
CtorInputs ==
    { [arn |-> a, codeuri |-> c] :
        a \in { PyStr(s) : s \in ArnStrings } \cup NonStrings, c \in Codeuris }

InitArn ==
    /\ layers = <<>>
    /\ ctor = <<>>
    /\ apis = <<>>
    /\ raised = NoError
    /\ ret = NoRet
    /\ args \in CtorInputs
    /\ pc = "start"

Construct ==
    /\ pc = "start"
    /\ Build(args.arn, args.codeuri)
    /\ pc' = "constructed"
    /\ UNCHANGED << apis, args >>

ReadLayerArn ==
    /\ pc = "constructed"
    /\ Len(layers) = 1
    /\ LET r == layer_arn(layers[1]) IN
         /\ ret' = [op |-> "layer_arn", value |-> r.value]
         /\ raised' = r.raised
    /\ pc' = "returned"
    /\ UNCHANGED << layers, ctor, apis, args >>

NextArn == Construct \/ ReadLayerArn

SpecArn == InitArn /\ [][NextArn]_vars

\* ------------------------------------------------------------------------
\* One Cors.cors_to_headers(cors) call on every input: SpecCors
\* ------------------------------------------------------------------------
InitCors ==
    /\ layers = <<>>
    /\ ctor = <<>>
    /\ apis = <<>>
    /\ raised = NoError
    /\ ret = NoRet
    /\ args \in CorsInputs
    /\ pc = "start"

CorsToHeaders ==
    /\ pc = "start"
    /\ ret' = [op |-> "cors_to_headers", value |-> cors_to_headers(args)]
    /\ raised' = NoError
    /\ pc' = "returned"
    /\ UNCHANGED << layers, ctor, apis, args >>

NextCors == CorsToHeaders

SpecCors == InitCors /\ [][NextCors]_vars

\* ------------------------------------------------------------------------
\* Api objects on a heap: SpecApi
\* ------------------------------------------------------------------------
\* Largest number of routes in an Api's list.
MaxRoutes == 2

NewApi ==
    /\ Len(apis) < MaxApis
    /\ \E routes \in RoutesInputs : apis' = Append(apis, Api__init__(routes))
    /\ raised' = NoError
    /\ ret' = [op |-> "Api", value |-> PyNone]
    /\ UNCHANGED << layers, ctor, args, pc >>

\* apis[i].routes.append(route): routes merged in place
AppendRoute ==
    \E i \in DOMAIN apis, route \in Routes :
        /\ apis[i].routes.t = "list"
        /\ Len(apis[i].routes.items) < MaxRoutes
        /\ apis' = [apis EXCEPT ![i].routes.items = Append(@, route)]
        /\ raised' = NoError
        /\ ret' = [op |-> "routes.append", value |-> PyNone]
        /\ UNCHANGED << layers, ctor, args, pc >>

\* apis[i].cors = cors
SetCors ==
    \E i \in DOMAIN apis,
       cors \in { PyNone, Cors(PyStr(<< "x" >>), PyNone, PyNone, PyNone) } :
        /\ apis' = [apis EXCEPT ![i].cors = cors]
        /\ raised' = NoError
        /\ ret' = [op |-> "cors", value |-> PyNone]
        /\ UNCHANGED << layers, ctor, args, pc >>

\* apis[i].binary_media_types_set.add(m)
AddBinaryMediaType ==
    \E i \in DOMAIN apis, m \in MediaTypes :
        /\ apis' = [apis EXCEPT ![i].binary_media_types_set.items = @ \cup {m}]
        /\ raised' = NoError
        /\ ret' = [op |-> "binary_media_types_set.add", value |-> PyNone]
        /\ UNCHANGED << layers, ctor, args, pc >>

\* apis[i].stage_name = v
SetStageName ==
    \E i \in DOMAIN apis, v \in StageValues :
        /\ apis' = [apis EXCEPT ![i].stage_name = v]
        /\ raised' = NoError
        /\ ret' = [op |-> "stage_name", value |-> PyNone]
        /\ UNCHANGED << layers, ctor, args, pc >>

\* apis[i].stage_variables = v
SetStageVariables ==
    \E i \in DOMAIN apis, v \in StageValues :
        /\ apis' = [apis EXCEPT ![i].stage_variables = v]
        /\ raised' = NoError
        /\ ret' = [op |-> "stage_variables", value |-> PyNone]
        /\ UNCHANGED << layers, ctor, args, pc >>

\* hash(apis[i])
HashApi ==
    \E i \in DOMAIN apis :
        LET r == Api__hash__(apis[i]) IN
        /\ ret' = [op |-> "__hash__", value |-> r.value]
        /\ raised' = r.raised
        /\ UNCHANGED << layers, ctor, apis, args, pc >>

\* apis[i] == apis[j]
EqApi ==
    \E i \in DOMAIN apis, j \in DOMAIN apis :
        /\ ret' = [op |-> "==", value |-> Api__eq__(i, j)]
        /\ raised' = NoError
        /\ UNCHANGED << layers, ctor, apis, args, pc >>

NextApi ==
    \/ NewApi \/ AppendRoute \/ SetCors \/ AddBinaryMediaType
    \/ SetStageName \/ SetStageVariables \/ HashApi \/ EqApi

SpecApi == Init /\ [][NextApi]_vars

\* ------------------------------------------------------------------------
\* Properties
\* ------------------------------------------------------------------------
\* The constructor of a single-call run has returned or raised.
Called == pc \in { "constructed", "returned" }

\* s has a colon at i and at j and none between them, and decimal digits
\* alone behind j: s is <prefix>:<n>:<v> with <n> = s[i+1..j-1], <v> = s[j+1..].
HasNameAndVersionAt(s, i, j) ==
    /\ i < j
    /\ s[i] = ":"
    /\ s[j] = ":"
    /\ \A k \in (i + 1)..(j - 1) : s[k] # ":"
    /\ IsDigits(SubSeq(s, j + 1, Len(s)))

\* C1: for every arn <prefix>:<n>:<v> with <v> the decimal text of a
\* non-negative integer and an empty or None codeuri, the constructor succeeds
\* with version = v, is_defined_within_template = False and
\* name = <n> - <v> - <first 10 hex characters of sha256(arn)>.
C1_PublishedNameAndVersion ==
    (Called /\ IsString(args.arn) /\ ~Truthy(args.codeuri)) =>
        \A i, j \in 1..Len(args.arn.s) :
            HasNameAndVersionAt(args.arn.s, i, j) =>
                /\ pc = "constructed" => raised = NoError
                /\ Len(layers) = 1
                /\ layers[1]._version =
                       PyInt(DecimalValue(SubSeq(args.arn.s, j + 1, Len(args.arn.s))))
                /\ layers[1].is_defined_within_template = FALSE
                /\ layers[1]._name =
                       PyStr(SubSeq(args.arn.s, i + 1, j - 1) \o << "-" >>
                             \o SubSeq(args.arn.s, j + 1, Len(args.arn.s)) \o << "-" >>
                             \o SubSeq(Sha256PrefixOf[args.arn.s], 1, 10))
                /\ Len(Sha256PrefixOf[args.arn.s]) = 10

\* LayerVersion("a:a:a:12", None) was built: version 12, name a-12-aa303cc111.
C1_Witness ==
    /\ pc = "constructed"
    /\ args.arn = PyStr(<< "a", ":", "a", ":", "a", ":", "1", "2" >>)
    /\ args.codeuri = PyNone
    /\ Len(layers) = 1
    /\ layers[1]._version = PyInt(12)
    /\ layers[1]._name =
           PyStr(<< "a", "-", "1", "2", "-",
                    "a", "a", "3", "0", "3", "c", "c", "1", "1", "1" >>)

\* C2: for every string arn and every non-empty codeuri the constructor
\* succeeds with is_defined_within_template = True, name = arn, version = None.
C2_LocalLayer ==
    (Called /\ IsString(args.arn) /\ Truthy(args.codeuri)) =>
        /\ pc = "constructed" => raised = NoError
        /\ Len(layers) = 1
        /\ layers[1].is_defined_within_template = TRUE
        /\ layers[1]._name = args.arn
        /\ layers[1]._version = PyNone

\* LayerVersion("a", "x") was built, from an arn with no colon.
C2_Witness ==
    /\ pc = "constructed"
    /\ args.arn = PyStr(<< "a" >>)
    /\ args.codeuri = PyStr(<< "x" >>)
    /\ raised = NoError
    /\ Len(layers) = 1
    /\ layers[1]._name = PyStr(<< "a" >>)

\* s has at least three colon-delimited segments and the last one is an integer.
HasLayerVersionArnForm(s) ==
    /\ Cardinality({ i \in 1..Len(s) : s[i] = ":" }) >= 2
    /\ \E j \in 1..Len(s) :
          /\ s[j] = ":"
          /\ \A k \in (j + 1)..Len(s) : s[k] # ":"
          /\ IntParses(SubSeq(s, j + 1, Len(s)))

\* C3: with an empty or None codeuri and a string arn, the constructor raises
\* InvalidLayerVersionArn exactly when the arn has fewer than three
\* colon-delimited segments or a last segment that is no integer; otherwise it
\* succeeds, and it raises nothing else.
C3_InvalidArnIff ==
    (pc = "constructed" /\ IsString(args.arn) /\ ~Truthy(args.codeuri)) =>
        /\ raised = InvalidLayerVersionArn <=> ~HasLayerVersionArnForm(args.arn.s)
        /\ raised = NoError <=> HasLayerVersionArnForm(args.arn.s)
        /\ raised = NoError <=> Len(layers) = 1

\* LayerVersion("a:12", "") raised InvalidLayerVersionArn: the version is an
\* integer but the arn has two segments only.
C3_Witness ==
    /\ pc = "constructed"
    /\ args.arn = PyStr(<< "a", ":", "1", "2" >>)
    /\ args.codeuri = PyStr(<<>>)
    /\ raised = InvalidLayerVersionArn
    /\ layers = <<>>

\* C4: an arn that is not a string raises UnsupportedIntrinsic whatever the
\* codeuri, never InvalidLayerVersionArn, and no LayerVersion is built.
C4_UnsupportedIntrinsic ==
    (Called /\ ~IsString(args.arn)) =>
        /\ raised = UnsupportedIntrinsic
        /\ layers = <<>>
        /\ ctor = <<>>

\* LayerVersion(123, "x") raised UnsupportedIntrinsic.
C4_Witness ==
    /\ pc = "constructed"
    /\ args.arn = PyInt(123)
    /\ args.codeuri = PyStr(<< "x" >>)
    /\ raised = UnsupportedIntrinsic
    /\ layers = <<>>

\* C5: whatever is assigned to codeuri, a LayerVersion's arn, name, version and
\* is_defined_within_template are those set at construction (only codeuri
\* differs), and is_defined_within_template tells whether the codeuri given to
\* the constructor was non-empty.
C5_FieldsFixedAtConstruction ==
    /\ Len(ctor) = Len(layers)
    /\ \A i \in DOMAIN layers :
          /\ layers[i] = [ctor[i].built EXCEPT !._codeuri = layers[i]._codeuri]
          /\ layers[i]._arn = ctor[i].arn
          /\ ctor[i].built._codeuri = ctor[i].codeuri
          /\ layers[i].is_defined_within_template = Truthy(ctor[i].codeuri)

\* A published layer now holds a codeuri and a local one holds None.
C5_Witness ==
    /\ ret.op = "codeuri.setter"
    /\ \E i, j \in DOMAIN layers :
          /\ ~layers[i].is_defined_within_template
          /\ layers[i]._codeuri = PyStr(<< "x" >>)
          /\ ctor[i].codeuri = PyNone
          /\ layers[j].is_defined_within_template
          /\ layers[j]._codeuri = PyNone
          /\ ctor[j].codeuri = PyStr(<< "x" >>)

\* C6: two LayerVersions are equal exactly when arn, codeuri,
\* is_defined_within_template, name and version are all equal: two built from
\* the same (arn, codeuri) are equal until one is assigned another codeuri,
\* and a LayerVersion equals no value of another type.
C6_StructuralEquality ==
    \A i \in DOMAIN layers :
        /\ \A j \in DOMAIN layers :
              /\ LayerVersion__eq__(layers[i], layers[j]) <=>
                    /\ layers[i]._arn = layers[j]._arn
                    /\ layers[i]._codeuri = layers[j]._codeuri
                    /\ layers[i].is_defined_within_template =
                           layers[j].is_defined_within_template
                    /\ layers[i]._name = layers[j]._name
                    /\ layers[i]._version = layers[j]._version
              /\ (ctor[i].arn = ctor[j].arn /\ ctor[i].codeuri = ctor[j].codeuri) =>
                    (LayerVersion__eq__(layers[i], layers[j]) <=>
                        layers[i]._codeuri = layers[j]._codeuri)
        /\ \A v \in OthersFor(layers[i]) : ~LayerVersion__eq__(layers[i], v)

\* Two layers built from the same (arn, codeuri), one since assigned another
\* codeuri, were compared and found unequal.
C6_Witness ==
    /\ ret.op = "__eq__"
    /\ ret.value = FALSE
    /\ Len(layers) = 2
    /\ ctor[1].arn = ctor[2].arn
    /\ ctor[1].codeuri = ctor[2].codeuri
    /\ layers[1]._codeuri # layers[2]._codeuri
    /\ ~LayerVersion__eq__(layers[1], layers[2])

\* C7: layer_arn of a published LayerVersion never fails and is the arn
\* without its last ':<version>': layer_arn + ':' + <last segment> = arn.
C7_LayerArnStripsVersion ==
    /\ (Called /\ Len(layers) = 1 /\ ~Truthy(args.codeuri)) =>
           layer_arn(layers[1]).raised = NoError
    /\ (pc = "returned" /\ ~Truthy(args.codeuri)) =>
           /\ raised = NoError
           /\ ret.op = "layer_arn"
           /\ \E j \in 1..Len(args.arn.s) :
                 /\ args.arn.s[j] = ":"
                 /\ \A k \in (j + 1)..Len(args.arn.s) : args.arn.s[k] # ":"
                 /\ ret.value = PyStr(SubSeq(args.arn.s, 1, j - 1))
                 /\ ret.value.s \o << ":" >> \o SubSeq(args.arn.s, j + 1, Len(args.arn.s))
                        = args.arn.s

\* layer_arn of LayerVersion("a:a:a:12", None) returned "a:a:a".
C7_Witness ==
    /\ pc = "returned"
    /\ args.arn = PyStr(<< "a", ":", "a", ":", "a", ":", "1", "2" >>)
    /\ args.codeuri = PyNone
    /\ ret = [op |-> "layer_arn", value |-> PyStr(<< "a", ":", "a", ":", "a" >>)]

\* C8: cors_to_headers(None) is empty; for a Cors its keys are exactly the
\* header names of the fields that are not None, each with the field's value,
\* and no key has the value None.
C8_CorsHeaders ==
    pc = "returned" =>
        /\ ret.op = "cors_to_headers"
        /\ args = PyNone => DOMAIN ret.value = {}
        /\ args # PyNone =>
              /\ DOMAIN ret.value \subseteq
                     { "Access-Control-Allow-Origin", "Access-Control-Allow-Methods",
                       "Access-Control-Allow-Headers", "Access-Control-Max-Age" }
              /\ "Access-Control-Allow-Origin" \in DOMAIN ret.value
                     <=> args.allow_origin # PyNone
              /\ "Access-Control-Allow-Methods" \in DOMAIN ret.value
                     <=> args.allow_methods # PyNone
              /\ "Access-Control-Allow-Headers" \in DOMAIN ret.value
                     <=> args.allow_headers # PyNone
              /\ "Access-Control-Max-Age" \in DOMAIN ret.value
                     <=> args.max_age # PyNone
              /\ args.allow_origin # PyNone =>
                     ret.value["Access-Control-Allow-Origin"] = args.allow_origin
              /\ args.allow_methods # PyNone =>
                     ret.value["Access-Control-Allow-Methods"] = args.allow_methods
              /\ args.allow_headers # PyNone =>
                     ret.value["Access-Control-Allow-Headers"] = args.allow_headers
              /\ args.max_age # PyNone =>
                     ret.value["Access-Control-Max-Age"] = args.max_age
        /\ \A k \in DOMAIN ret.value : ret.value[k] # PyNone

\* cors_to_headers(Cors(allow_origin="", max_age=0)) returned the two headers.
C8_Witness ==
    /\ pc = "returned"
    /\ args = Cors(PyStr(<<>>), PyNone, PyNone, PyInt(0))
    /\ DOMAIN ret.value = { "Access-Control-Allow-Origin", "Access-Control-Max-Age" }
    /\ ret.value["Access-Control-Allow-Origin"] = PyStr(<<>>)
    /\ ret.value["Access-Control-Max-Age"] = PyInt(0)

\* C9: two distinct Api objects with equal routes, equal cors and equal binary
\* media types compare equal and have equal hashes (whatever their stage_name
\* and stage_variables).
C9_ApiEqualByHash ==
    \A i, j \in DOMAIN apis :
        (/\ i # j
         /\ apis[i].routes = apis[j].routes
         /\ apis[i].cors = apis[j].cors
         /\ binary_media_types(apis[i]) = binary_media_types(apis[j])) =>
            /\ Api__eq__(i, j)
            /\ Api__hash__(apis[i]).raised = NoError
            /\ Api__hash__(apis[j]).raised = NoError
            /\ Api__hash__(apis[i]).value = Api__hash__(apis[j]).value

\* The layer name and version segments rsplit(':', 2) gives.
TrailingSegments(arn) == SubSeq(RSplit(arn.s, 2), 2, 3)

\* C10: two published LayerVersions built from the same arn have the same name
\* and version; two built from different arns that end in the same
\* <layer-name>:<version> have different names exactly when the 10-character
\* hash prefixes of their arns differ.
C10_NameIsIdentityKey ==
    \A i, j \in DOMAIN layers :
        (~layers[i].is_defined_within_template
         /\ ~layers[j].is_defined_within_template) =>
            /\ layers[i]._arn = layers[j]._arn =>
                  /\ layers[i]._name = layers[j]._name
                  /\ layers[i]._version = layers[j]._version
            /\ (/\ layers[i]._arn # layers[j]._arn
                /\ TrailingSegments(layers[i]._arn) = TrailingSegments(layers[j]._arn)) =>
                  (layers[i]._name # layers[j]._name <=>
                      Sha256PrefixOf[layers[i]._arn.s] # Sha256PrefixOf[layers[j]._arn.s])

\* Published layers "a:a:12" and "12:a:12" were built: a-12-39deee7a0d and
\* a-12-67b10c99c0.
C10_Witness ==
    /\ Len(layers) = 2
    /\ ret.op = "LayerVersion"
    /\ layers[1]._name =
           PyStr(<< "a", "-", "1", "2", "-",
                    "3", "9", "d", "e", "e", "e", "7", "a", "0", "d" >>)
    /\ layers[2]._name =
           PyStr(<< "a", "-", "1", "2", "-",
                    "6", "7", "b", "1", "0", "c", "9", "9", "c", "0" >>)
    /\ layers[1]._version = layers[2]._version

====
